---- MODULE Spec2Model ----
(***************************************************************************)
(* Resilient network client core of the debate UI:                         *)
(*   - fetchWithRetry / isRetryableError      (api client, part_000)       *)
(*   - WebSocketClient                        (websocket-client.js)        *)
(*   - apiClient.connectWebSocket registry    (api client, part_000)       *)
(*                                                                         *)
(* Strings that the code searches with String.includes are sequences of    *)
(* words; Includes(s, w) is "s contains the word w".                       *)
(***************************************************************************)
EXTENDS Integers, Sequences, FiniteSets, TLC

VARIABLES
    \* ---- fetchWithRetry (the execution that is running) ----
    policy,      \* RETRY_CONFIG, the module constant every execution reads
    fpc,         \* "idle" | "fetching" | "sleeping" | "returned" | "thrown"
    attempt,     \* the attempt parameter of the running invocation
    calls,       \* number of fetch(url, options) calls issued so far
    sleeps,      \* the delayMs values passed to delay(), in order
    statuses,    \* status of every settled attempt, 0 for a transport rejection
    ferror,      \* the error thrown to the caller (NoError before)
    fresp,       \* the response returned to the caller (NoResp before)
    \* ---- a second fetchWithRetry execution, suspended at an await ----
    peer         \* its parameters and locals, as a record of the fields above

fvars == <<policy, fpc, attempt, calls, sleeps, statuses, ferror, fresp, peer>>

VARIABLES
    \* ---- WebSocketClient instances and the apiClient registry ----
    storage,     \* localStorage 'agoraUser': "absent" | "token" | "notoken"
    wsClients,   \* the registry: session key -> instance (0: no entry)
    inst,        \* instance id -> fields of the WebSocketClient, its sockets and timers
    last         \* the operation or event that made the last step, and its result

svars == <<storage, wsClients, inst, last>>

----------------------------------------------------------------------------
\* Bounds of the exploration

MaxAttemptsBound == 3      \* policies with maxAttempts in 1..MaxAttemptsBound
MaxClients == 2            \* WebSocketClient instances ever constructed
MaxSockets == 2            \* sockets of one instance that are not yet closed
MaxStrayTimers == 1        \* pending reconnect timers of one instance that it no longer records
MaxSends == 2              \* send() calls per instance

----------------------------------------------------------------------------
\* RETRY_CONFIG

DefaultMaxAttempts == 3
RetryDelay == 1000
BackoffMultiplier == 2
RetryableStatuses == {408, 429, 500, 502, 503, 504}
NonRetryableStatuses == {400, 401, 403, 404}
NetworkErrors == {"ECONNRESET", "ETIMEDOUT", "EAI_AGAIN"}

RETRY_CONFIG ==
    [maxAttempts |-> DefaultMaxAttempts,
     retryDelay |-> RetryDelay,
     backoffMultiplier |-> BackoffMultiplier,
     retryableStatuses |-> RetryableStatuses,
     nonRetryableStatuses |-> NonRetryableStatuses,
     networkErrors |-> NetworkErrors]

\* Policies explored: the shipped one, every maxAttempts up to the bound, a
\* list in which a non-retryable code is also listed as retryable, and a
\* longer initial delay.
Policies ==
    {[RETRY_CONFIG EXCEPT !.maxAttempts = m, !.retryableStatuses = r,
                          !.retryDelay = d] :
        m \in 1..MaxAttemptsBound,
        r \in {RetryableStatuses, RetryableStatuses \cup {404}},
        d \in {RetryDelay, 20 * RetryDelay}}

----------------------------------------------------------------------------
\* Strings, responses and errors

Includes(s, w) == \E i \in DOMAIN s : s[i] = w

RECURSIVE Pow(_, _)
Pow(b, e) == IF e = 0 THEN 1 ELSE b * Pow(b, e - 1)

NoError == [name |-> "none", status |-> 0, message |-> <<>>, data |-> "null"]
NoResp == [status |-> 0]

APIError(message, status, data) ==
    [name |-> "APIError", status |-> status, message |-> message, data |-> data]

\* Bodies of non-success responses
BodyTexts == {<<>>, <<"Not", "Found">>, <<"read", "ECONNRESET">>}

StatusInputs == {200, 201} \cup NonRetryableStatuses \cup RetryableStatuses \cup {409}

Responses ==
    [status : StatusInputs, ctype : {"json"}, readable : BOOLEAN,
     message : BodyTexts, detail : {<<>>, <<"Not", "Found">>}, text : {<<>>}]
    \cup
    [status : StatusInputs, ctype : {"text", "none"}, readable : BOOLEAN,
     message : {<<>>}, detail : {<<>>}, text : BodyTexts]

\* Errors with which fetch() itself rejects
TransportErrors ==
    [name : {"TypeError"}, status : {0}, data : {"null"},
     message : {<<"Failed", "to", "fetch">>, <<"Load", "failed">>}]
    \cup
    [name : {"Error", "AbortError"}, status : {0}, data : {"null"},
     message : {<<"read", "ECONNRESET">>, <<"The", "operation", "was", "aborted">>}]

ResponseOk_Only200(response) == response.status = 200

ResponseOk(response) == response.status >= 200 /\ response.status <= 299

Or(a, b) == IF a # <<>> THEN a ELSE b    \* a || b on strings

\* The APIError built from a non-success response
ErrorOfResponse_NoFallback(response) ==
    IF ~response.readable
    THEN APIError(<<"HTTP", ToString(response.status)>>, response.status, "null")
    ELSE IF response.ctype = "json"
    THEN APIError(Or(response.message, response.detail), response.status, "json")
    ELSE APIError(response.text, response.status, "null")

ErrorOfResponse(response) ==
    LET errorMessage == <<"HTTP", ToString(response.status)>>
    IN  IF ~response.readable
        THEN APIError(errorMessage, response.status, "null")
        ELSE IF response.ctype = "json"
        THEN APIError(Or(response.message, Or(response.detail, errorMessage)),
                      response.status, "json")
        ELSE APIError(Or(response.text, errorMessage), response.status, "null")

\* the retryable-status test moved ahead of the non-retryable one
isRetryableError_AllowFirst(error) ==
    IF error.name = "APIError" /\ error.status \in policy.retryableStatuses
    THEN TRUE
    ELSE IF error.name = "APIError" /\ error.status \in policy.nonRetryableStatuses
    THEN FALSE
    ELSE IF error.name = "TypeError" /\ Includes(error.message, "fetch")
    THEN TRUE
    ELSE \E code \in policy.networkErrors : Includes(error.message, code)

isRetryableError_AnyTypeError(error) ==
    IF error.name = "APIError" /\ error.status \in policy.nonRetryableStatuses
    THEN FALSE
    ELSE IF error.name = "TypeError"
    THEN TRUE
    ELSE IF \E code \in policy.networkErrors : Includes(error.message, code)
    THEN TRUE
    ELSE IF error.name = "APIError" /\ error.status \in policy.retryableStatuses
    THEN TRUE
    ELSE FALSE

isRetryableError(error) ==
    IF error.name = "APIError" /\ error.status \in policy.nonRetryableStatuses
    THEN FALSE
    ELSE IF error.name = "TypeError" /\ Includes(error.message, "fetch")
    THEN TRUE
    ELSE IF \E code \in policy.networkErrors : Includes(error.message, code)
    THEN TRUE
    ELSE IF error.name = "APIError" /\ error.status \in policy.retryableStatuses
    THEN TRUE
    ELSE FALSE

delayMs_FromMultiplier(n) == policy.retryDelay * Pow(policy.backoffMultiplier, n)

delayMs(n) == policy.retryDelay * Pow(policy.backoffMultiplier, n - 1)

----------------------------------------------------------------------------
\* fetchWithRetry

\* an execution that has not been called yet: attempt = 1 is the default
\* of the parameter
IdleExecution ==
    [fpc |-> "idle", attempt |-> 1, calls |-> 0, sleeps |-> <<>>,
     statuses |-> <<>>, ferror |-> NoError, fresp |-> NoResp]

FetchInit ==
    /\ policy \in Policies
    /\ fpc = "idle"
    /\ attempt = 1
    /\ calls = 0
    /\ sleeps = <<>>
    /\ statuses = <<>>
    /\ ferror = NoError
    /\ fresp = NoResp
    /\ peer = IdleExecution

\* fetchWithRetry(url, options): the first fetch() is issued
FetchCall ==
    /\ fpc = "idle"
    /\ fpc' = "fetching"
    /\ calls' = calls + 1
    /\ UNCHANGED <<policy, attempt, sleeps, statuses, ferror, fresp, peer, svars>>

\* one more attempt allowed than maxAttempts
LastAttempt_OneMore(n) == n > policy.maxAttempts

\* attempt >= RETRY_CONFIG.maxAttempts
LastAttempt(n) == n >= policy.maxAttempts

\* the catch block, entered with the error of this attempt; ferror is the
\* catch binding, which is what is rethrown or what the sleep follows
Catch(error, status) ==
    /\ statuses' = Append(statuses, status)
    /\ ferror' = error
    /\ IF ~isRetryableError(error) \/ LastAttempt(attempt)
       THEN /\ fpc' = "thrown"
            /\ UNCHANGED <<sleeps>>
       ELSE /\ fpc' = "sleeping"
            /\ sleeps' = Append(sleeps, delayMs(attempt))
    /\ UNCHANGED <<policy, attempt, calls, fresp, peer, svars>>

\* fetch() resolves with a response
FetchResolve(response) ==
    /\ fpc = "fetching"
    /\ IF ResponseOk(response)
       THEN /\ fpc' = "returned"
            /\ fresp' = [status |-> response.status]
            /\ statuses' = Append(statuses, response.status)
            /\ UNCHANGED <<policy, attempt, calls, sleeps, ferror, peer, svars>>
       ELSE Catch(ErrorOfResponse(response), response.status)

\* fetch() rejects
FetchReject(error) ==
    /\ fpc = "fetching"
    /\ Catch(error, 0)

\* delay(delayMs) elapses; fetchWithRetry(url, options, attempt + 1) starts
FetchWake ==
    /\ fpc = "sleeping"
    /\ fpc' = "fetching"
    /\ attempt' = attempt + 1
    /\ calls' = calls + 1
    /\ ferror' = NoError
    /\ UNCHANGED <<policy, sleeps, statuses, fresp, peer, svars>>

FetchNext ==
    \/ FetchCall
    \/ \E response \in Responses : FetchResolve(response)
    \/ \E error \in TransportErrors : FetchReject(error)
    \/ FetchWake

\* the fetch() call in flight settles
FetchSettle ==
    \/ \E response \in Responses : FetchResolve(response)
    \/ \E error \in TransportErrors : FetchReject(error)

\* ---- two executions interleaved at their awaits ----

\* the parameters and locals of the running execution
Locals ==
    [fpc |-> fpc, attempt |-> attempt, calls |-> calls, sleeps |-> sleeps,
     statuses |-> statuses, ferror |-> ferror, fresp |-> fresp]

\* attempt kept in one module-level binding that every execution uses
Resumed_SharedAttempt(E) == [E EXCEPT !.attempt = attempt]

\* what an execution finds when it resumes after an await: url, options and
\* attempt are parameters of its own invocation, the rest are its own locals
Resumed(E) == E

\* the running execution is suspended at its await (or has settled, or has
\* not been called) and the event loop runs the other one
Switch ==
    /\ peer' = Locals
    /\ LET E == Resumed(peer)
       IN  /\ fpc' = E.fpc
           /\ attempt' = E.attempt
           /\ calls' = E.calls
           /\ sleeps' = E.sleeps
           /\ statuses' = E.statuses
           /\ ferror' = E.ferror
           /\ fresp' = E.fresp
    /\ UNCHANGED <<policy, svars>>

\* outcomes explored for the interleaved executions
ConcurrentResponses ==
    {r \in Responses : r.status \in {200, 404, 503} /\ ~r.readable /\ r.ctype = "none"
                                                    /\ r.text = <<>>}

ConcurrentErrors == {e \in TransportErrors : e.name = "TypeError"}

ConcurrentNext ==
    \/ FetchCall
    \/ \E response \in ConcurrentResponses : FetchResolve(response)
    \/ \E error \in ConcurrentErrors : FetchReject(error)
    \/ FetchWake
    \/ Switch

vars == <<fvars, svars>>

\* every fetch() call settles and every delay() elapses
FetchFairness == WF_vars(FetchSettle) /\ WF_vars(FetchWake)


----------------------------------------------------------------------------
\* WebSocketClient (websocket-client.js)
\*
\* An instance is a record S.  Besides the fields of the class it carries the
\* environment the instance created: the sockets it no longer references but
\* whose handlers still point at it (stale), the setTimeout callbacks it no
\* longer records (strayTimers), the messages handed to WebSocket.send (wire),
\* the number of send() calls (nsent), the onReconnectFailed notifications
\* since the last open or reconnect() (notices), the connect() calls of reconnect
\* timers that got past the guard since then (autoConnects), whether disconnect() was the
\* owner's last word (disconnected), and the log of the step being taken
\* (emitted: the events emitted, opened: the sockets constructed).

ClientIds == 1..MaxClients
Keys == {"42"}

Channels == {"onOpen", "onClose", "onError", "onMessage", "onSpeech", "onStatus",
             "onScore", "onNotification", "onConnected", "onReconnectFailed"}

\* property names of eventHandlers that are followed; 0 is "no handler"
HandlerKeys == {"onMessage", "onError", "onSpeech", "speech"}
NoHandlers == [k \in HandlerKeys |-> 0]
HandlerSets ==
    {NoHandlers,
     [NoHandlers EXCEPT !["onMessage"] = 1, !["onError"] = 1],
     [NoHandlers EXCEPT !["onMessage"] = 2]}

RECONNECT_CONFIG ==
    [enabled |-> TRUE, maxAttempts |-> 5, baseDelay |-> 1000, maxDelay |-> 30000,
     backoffMultiplier |-> 2]
Configs == {RECONNECT_CONFIG,
            [RECONNECT_CONFIG EXCEPT !.enabled = FALSE],
            [RECONNECT_CONFIG EXCEPT !.maxAttempts = 1],
            [RECONNECT_CONFIG EXCEPT !.baseDelay = 20000]}

NoStale == [CONNECTING |-> 0, OPEN |-> 0, CLOSING |-> 0]

\* new WebSocketClient(debateId, eventHandlers, config), before getToken()
NewClient(debateId, eventHandlers, config) ==
    [exists |-> TRUE,
     debateId |-> debateId,
     eventHandlers |-> eventHandlers,
     config |-> config,
     ws |-> "null",
     isConnecting |-> FALSE,
     isConnected |-> FALSE,
     shouldReconnect |-> TRUE,
     reconnectAttempts |-> 0,
     reconnectTimer |-> "null",
     heartbeatTimer |-> FALSE,
     heartbeats |-> 0,
     autoConnects |-> 0,
     messageQueue |-> <<>>,
     token |-> FALSE,
     stale |-> NoStale,
     strayTimers |-> 0,
     wire |-> <<>>,
     nsent |-> 0,
     notices |-> 0,
     disconnected |-> FALSE,
     emitted |-> <<>>,
     opened |-> 0,
     scheduled |-> <<>>]

NoClient == [NewClient("", NoHandlers, RECONNECT_CONFIG) EXCEPT !.exists = FALSE]

\* an instance not involved in the step: its step log is empty
Quiet(S) == [S EXCEPT !.emitted = <<>>, !.opened = 0, !.scheduled = <<>>]

Min(a, b) == IF a < b THEN a ELSE b

LiveSockets(S) ==
    (IF S.ws \in {"CONNECTING", "OPEN", "CLOSING"} THEN 1 ELSE 0)
    + S.stale.CONNECTING + S.stale.OPEN + S.stale.CLOSING

Fits(S) == LiveSockets(S) <= MaxSockets /\ S.strayTimers <= MaxStrayTimers

getToken(S) ==
    IF storage = "token" THEN [S EXCEPT !.token = TRUE]
    ELSE IF storage = "notoken" THEN [S EXCEPT !.token = FALSE]
    ELSE S

\* what a handler is called with when the event carries no parsed frame
NoData == [parses |-> FALSE, isNull |-> FALSE, type |-> ""]

emit(S, eventName, data) ==
    LET h == IF eventName \in HandlerKeys THEN S.eventHandlers[eventName] ELSE 0
    IN  [S EXCEPT !.emitted = Append(@, [name |-> eventName, handler |-> h,
                                         data |-> data]),
                  !.notices = IF eventName = "onReconnectFailed" THEN Min(@ + 1, 2) ELSE @]

on_KeepFirst(S, eventName, handler) ==
    IF S.eventHandlers[eventName] # 0
    THEN S
    ELSE [S EXCEPT !.eventHandlers[eventName] = handler]

on(S, eventName, handler) == [S EXCEPT !.eventHandlers[eventName] = handler]

off(S, eventName) == [S EXCEPT !.eventHandlers[eventName] = 0]

stopHeartbeat(S) ==
    IF S.heartbeatTimer
    THEN [S EXCEPT !.heartbeatTimer = FALSE, !.heartbeats = @ - 1]
    ELSE S

startHeartbeat_NoStop(S) == [S EXCEPT !.heartbeatTimer = TRUE, !.heartbeats = @ + 1]

startHeartbeat(S) ==
    [stopHeartbeat(S) EXCEPT !.heartbeatTimer = TRUE, !.heartbeats = @ + 1]

scheduleReconnect_DelayAfterIncrement(S) ==
    IF S.reconnectAttempts >= S.config.maxAttempts
    THEN emit(S, "onReconnectFailed", NoData)
    ELSE LET delay == Min(S.config.baseDelay
                            * Pow(S.config.backoffMultiplier, S.reconnectAttempts + 1),
                          S.config.maxDelay)
         IN  [S EXCEPT !.reconnectAttempts = @ + 1,
                       !.strayTimers = IF S.reconnectTimer = "pending" THEN @ + 1 ELSE @,
                       !.reconnectTimer = "pending",
                       !.scheduled = Append(@, delay)]

scheduleReconnect(S) ==
    IF S.reconnectAttempts >= S.config.maxAttempts
    THEN emit(S, "onReconnectFailed", NoData)
    ELSE LET delay == Min(S.config.baseDelay
                            * Pow(S.config.backoffMultiplier, S.reconnectAttempts),
                          S.config.maxDelay)
         IN  [S EXCEPT !.reconnectAttempts = @ + 1,
                       !.strayTimers = IF S.reconnectTimer = "pending" THEN @ + 1 ELSE @,
                       !.reconnectTimer = "pending",
                       !.scheduled = Append(@, delay)]

handleConnectionError(S) ==
    LET S1 == emit(S, "onError", NoData)
    IN  IF S1.shouldReconnect /\ S1.config.enabled THEN scheduleReconnect(S1) ELSE S1

\* this.ws = new WebSocket(url): the socket referenced before stays alive
\* with its handlers until its close event
NewWebSocket(S) ==
    LET S1 == IF S.ws \in {"CONNECTING", "OPEN", "CLOSING"}
              THEN [S EXCEPT !.stale[S.ws] = @ + 1]
              ELSE S
    IN  [S1 EXCEPT !.ws = "CONNECTING", !.opened = @ + 1]

\* connect() without the guard on the two flags
connect_Unguarded(S) ==
    LET S1 == getToken([S EXCEPT !.isConnecting = TRUE])
    IN  IF ~S1.token
        THEN handleConnectionError([S1 EXCEPT !.isConnecting = FALSE])
        ELSE NewWebSocket(S1)

connect(S) ==
    IF S.isConnecting \/ S.isConnected
    THEN S
    ELSE LET S1 == getToken([S EXCEPT !.isConnecting = TRUE])
         IN  IF ~S1.token
             THEN handleConnectionError([S1 EXCEPT !.isConnecting = FALSE])
             ELSE NewWebSocket(S1)

\* WebSocket.send of the referenced socket: throws while CONNECTING;
\* JSON.stringify throws for a message that cannot be serialised
Transmits(S, message) == message.ok /\ S.ws # "CONNECTING"

\* send() that gives up a message whose transmission failed
send_DropFailed(S, message) ==
    IF ~S.isConnected \/ S.ws = "null"
    THEN [S |-> [S EXCEPT !.messageQueue = Append(@, message)], ret |-> FALSE]
    ELSE IF Transmits(S, message)
    THEN [S |-> [S EXCEPT !.wire = Append(@, message)], ret |-> TRUE]
    ELSE [S |-> S, ret |-> FALSE]

\* send(message): the instance afterwards, and the value returned
send(S, message) ==
    IF ~S.isConnected \/ S.ws = "null"
    THEN [S |-> [S EXCEPT !.messageQueue = Append(@, message)], ret |-> FALSE]
    ELSE IF Transmits(S, message)
    THEN [S |-> [S EXCEPT !.wire = Append(@, message)], ret |-> TRUE]
    ELSE [S |-> [S EXCEPT !.messageQueue = Append(@, message)], ret |-> FALSE]

RECURSIVE flushMessageQueue(_)
flushMessageQueue(S) ==
    IF S.messageQueue = <<>>
    THEN S
    ELSE LET message == Head(S.messageQueue)
             r == send([S EXCEPT !.messageQueue = Tail(@)], message)
         IN  IF ~r.ret THEN r.S ELSE flushMessageQueue(r.S)

handleOpen_KeepAttempts(S) ==
    LET S1 == [S EXCEPT !.isConnecting = FALSE, !.isConnected = TRUE, !.notices = 0,
                        !.autoConnects = 0]
    IN  emit(startHeartbeat(flushMessageQueue(S1)), "onOpen", NoData)

handleOpen(S) ==
    LET S1 == [S EXCEPT !.isConnecting = FALSE, !.isConnected = TRUE,
                        !.reconnectAttempts = 0, !.notices = 0, !.autoConnects = 0]
    IN  emit(startHeartbeat(flushMessageQueue(S1)), "onOpen", NoData)

WSMessageType == {"speech", "status", "score", "notification", "error", "connected"}

ChannelOf(type) ==
    CASE type = "speech" -> "onSpeech"
      [] type = "status" -> "onStatus"
      [] type = "score" -> "onScore"
      [] type = "notification" -> "onNotification"
      [] type = "error" -> "onError"
      [] type = "connected" -> "onConnected"

\* inbound frames: text that JSON.parse rejects, the JSON value null, and
\* objects with or without a type
Frames == {[parses |-> FALSE, isNull |-> FALSE, type |-> ""],
           [parses |-> TRUE, isNull |-> TRUE, type |-> ""]}
          \cup [parses : {TRUE}, isNull : {FALSE},
                type : {"", "unknown_x"} \cup WSMessageType]

handleMessage_ReportMalformed(S, frame) ==
    IF ~frame.parses \/ frame.isNull
    THEN emit(S, "onError", NoData)
    ELSE LET S1 == IF frame.type \in WSMessageType
                   THEN emit(S, ChannelOf(frame.type), frame)
                   ELSE S
         IN  emit(S1, "onMessage", frame)

handleMessage_TypedOrCatchAll(S, frame) ==
    IF ~frame.parses \/ frame.isNull
    THEN S
    ELSE IF frame.type \in WSMessageType
         THEN emit(S, ChannelOf(frame.type), frame)
         ELSE emit(S, "onMessage", frame)

handleMessage(S, frame) ==
    IF ~frame.parses \/ frame.isNull
    THEN S
    ELSE LET S1 == IF frame.type \in WSMessageType
                   THEN emit(S, ChannelOf(frame.type), frame)
                   ELSE S
         IN  emit(S1, "onMessage", frame)

handleError(S) == emit(S, "onError", NoData)

\* handleClose that never schedules a reconnect
handleClose_NoReschedule(S) ==
    LET S1 == [S EXCEPT !.isConnecting = FALSE, !.isConnected = FALSE]
    IN  emit(stopHeartbeat(S1), "onClose", NoData)

handleClose_IgnoreEnabled(S) ==
    LET S1 == [S EXCEPT !.isConnecting = FALSE, !.isConnected = FALSE]
        S2 == emit(stopHeartbeat(S1), "onClose", NoData)
    IN  IF S2.shouldReconnect THEN scheduleReconnect(S2) ELSE S2

handleClose(S) ==
    LET S1 == [S EXCEPT !.isConnecting = FALSE, !.isConnected = FALSE]
        S2 == emit(stopHeartbeat(S1), "onClose", NoData)
    IN  IF S2.shouldReconnect /\ S2.config.enabled THEN scheduleReconnect(S2) ELSE S2

\* ws.close(); this.ws = null
CloseAndDrop(S) ==
    LET S1 == IF S.ws \in {"CONNECTING", "OPEN", "CLOSING"}
              THEN [S EXCEPT !.stale.CLOSING = @ + 1]
              ELSE S
    IN  [S1 EXCEPT !.ws = "null"]

\* disconnect() that also empties the outbound queue
disconnect_ClearQueue(S) ==
    LET S1 == [S EXCEPT !.shouldReconnect = FALSE, !.reconnectTimer = "null"]
        S2 == CloseAndDrop(stopHeartbeat(S1))
    IN  [S2 EXCEPT !.isConnected = FALSE, !.isConnecting = FALSE,
                   !.disconnected = TRUE, !.messageQueue = <<>>]

\* disconnect() without the close of the socket
disconnect_KeepSocket(S) ==
    LET S1 == [S EXCEPT !.shouldReconnect = FALSE, !.reconnectTimer = "null"]
    IN  [stopHeartbeat(S1) EXCEPT !.isConnected = FALSE, !.isConnecting = FALSE,
                                  !.disconnected = TRUE]

disconnect(S) ==
    LET S1 == [S EXCEPT !.shouldReconnect = FALSE,
                        !.reconnectTimer = "null"]   \* clearTimeout of the recorded timer
        S2 == CloseAndDrop(stopHeartbeat(S1))
    IN  [S2 EXCEPT !.isConnected = FALSE, !.isConnecting = FALSE,
                   !.disconnected = TRUE]

reconnect_KeepAttempts(S) ==
    connect([disconnect(S) EXCEPT !.shouldReconnect = TRUE, !.notices = 0,
                                  !.autoConnects = 0, !.disconnected = FALSE])

reconnect(S) ==
    connect([disconnect(S) EXCEPT !.shouldReconnect = TRUE,
                                  !.reconnectAttempts = 0, !.notices = 0,
                                  !.autoConnects = 0, !.disconnected = FALSE])

----------------------------------------------------------------------------
\* Steps of the stream client: caller operations, socket events, timers

\* what is recorded of a step: the operation or event, the instance it ran
\* on, what it returned, and the arguments of a connectWebSocket call
Op(op, c, ret) ==
    [op |-> op, c |-> c, ret |-> ret, key |-> "", handlers |-> NoHandlers,
     frame |-> NoData]

StreamInit ==
    /\ storage \in {"absent", "token"}
    /\ wsClients = [k \in Keys |-> 0]
    /\ inst = [c \in ClientIds |-> NoClient]
    /\ last = Op("init", 0, "void")

\* the instance c becomes S; every other instance is untouched
Step(c, S, op, ret) ==
    /\ Fits(S)
    /\ inst' = [d \in ClientIds |-> IF d = c THEN S ELSE Quiet(inst[d])]
    /\ last' = Op(op, c, ret)

Begin(c) == Quiet(inst[c])

\* a message event of a socket whose handlers point at the instance c
Deliver(c, frame, op) ==
    LET S == handleMessage(Begin(c), frame)
    IN  /\ Fits(S)
        /\ inst' = [d \in ClientIds |-> IF d = c THEN S ELSE Quiet(inst[d])]
        /\ last' = [Op(op, c, "void") EXCEPT !.frame = frame]

\* login / logout / profile rewrite by the rest of the application
StorageChange(v) ==
    /\ storage # v
    /\ storage' = v
    /\ inst' = [d \in ClientIds |-> Quiet(inst[d])]
    /\ last' = Op("storage", 0, "void")
    /\ UNCHANGED <<wsClients, fvars>>

Connect(c) ==
    /\ inst[c].exists
    /\ Step(c, connect([Begin(c) EXCEPT !.disconnected = FALSE]), "connect", "void")
    /\ UNCHANGED <<storage, wsClients, fvars>>

Disconnect(c) ==
    /\ inst[c].exists
    /\ Step(c, disconnect(Begin(c)), "disconnect", "void")
    /\ UNCHANGED <<storage, wsClients, fvars>>

Reconnect(c) ==
    /\ inst[c].exists
    /\ Step(c, reconnect(Begin(c)), "reconnect", "void")
    /\ UNCHANGED <<storage, wsClients, fvars>>

Send(c, ok) ==
    /\ inst[c].exists
    /\ inst[c].nsent < MaxSends
    /\ LET S == [Begin(c) EXCEPT !.nsent = @ + 1]
           r == send(S, [id |-> S.nsent, ok |-> ok])
       IN  Step(c, r.S, "send", IF r.ret THEN "true" ELSE "false")
    /\ UNCHANGED <<storage, wsClients, fvars>>

\* on(eventName, handler) / off(eventName); the arguments are recorded in
\* the key and handlers fields of the step
On(c, eventName, handler) ==
    /\ inst[c].exists
    /\ inst[c].eventHandlers[eventName] # handler
    /\ inst' = [d \in ClientIds |->
                  IF d = c THEN on(Begin(c), eventName, handler) ELSE Quiet(inst[d])]
    /\ last' = [Op("on", c, "void") EXCEPT
                  !.key = eventName,
                  !.handlers = [NoHandlers EXCEPT ![eventName] = handler]]
    /\ UNCHANGED <<storage, wsClients, fvars>>

Off(c, eventName) ==
    /\ inst[c].exists
    /\ inst[c].eventHandlers[eventName] # 0
    /\ inst' = [d \in ClientIds |->
                  IF d = c THEN off(Begin(c), eventName) ELSE Quiet(inst[d])]
    /\ last' = [Op("off", c, "void") EXCEPT !.key = eventName]
    /\ UNCHANGED <<storage, wsClients, fvars>>

\* ---- events of the socket this.ws references ----

SocketOpen(c) ==
    /\ inst[c].ws = "CONNECTING"
    /\ Step(c, handleOpen([Begin(c) EXCEPT !.ws = "OPEN"]), "open", "void")
    /\ UNCHANGED <<storage, wsClients, fvars>>

SocketMessage(c, frame) ==
    /\ inst[c].ws = "OPEN"
    /\ Deliver(c, frame, "message")
    /\ UNCHANGED <<storage, wsClients, fvars>>

\* the connection ends; a failure fires error and then close
SocketClose(c, failed) ==
    /\ inst[c].ws \in {"CONNECTING", "OPEN", "CLOSING"}
    /\ LET S == [Begin(c) EXCEPT !.ws = "CLOSED"]
       IN  Step(c, handleClose(IF failed THEN handleError(S) ELSE S), "close", "void")
    /\ UNCHANGED <<storage, wsClients, fvars>>

\* ---- events of a socket the instance no longer references ----

StaleOpen(c) ==
    /\ inst[c].stale.CONNECTING > 0
    /\ LET S == [Begin(c) EXCEPT !.stale.CONNECTING = @ - 1, !.stale.OPEN = @ + 1]
       IN  Step(c, handleOpen(S), "staleOpen", "void")
    /\ UNCHANGED <<storage, wsClients, fvars>>

StaleMessage(c, frame) ==
    /\ inst[c].stale.OPEN > 0
    /\ Deliver(c, frame, "staleMessage")
    /\ UNCHANGED <<storage, wsClients, fvars>>

StaleClose(c, state, failed) ==
    /\ inst[c].stale[state] > 0
    /\ LET S == [Begin(c) EXCEPT !.stale[state] = @ - 1]
       IN  Step(c, handleClose(IF failed THEN handleError(S) ELSE S), "staleClose", "void")
    /\ UNCHANGED <<storage, wsClients, fvars>>

\* ---- timers ----

\* the callback of the timer set by scheduleReconnect: this.connect()
timerConnect(S) ==
    IF S.isConnecting \/ S.isConnected
    THEN connect(S)
    ELSE connect([S EXCEPT !.autoConnects = @ + 1])

\* the setTimeout callback recorded in reconnectTimer fires
TimerFire(c) ==
    /\ inst[c].reconnectTimer = "pending"
    /\ Step(c, timerConnect([Begin(c) EXCEPT !.reconnectTimer = "fired"]), "timer", "void")
    /\ UNCHANGED <<storage, wsClients, fvars>>

\* a setTimeout callback that reconnectTimer no longer records fires
StrayTimerFire(c) ==
    /\ inst[c].strayTimers > 0
    /\ Step(c, timerConnect([Begin(c) EXCEPT !.strayTimers = @ - 1]), "strayTimer", "void")
    /\ UNCHANGED <<storage, wsClients, fvars>>

\* the setInterval callback of startHeartbeat
HeartbeatTick(c) ==
    /\ inst[c].heartbeats > 0
    /\ LET S == Begin(c)
       IN  Step(c, S, "heartbeat",
                IF S.isConnected /\ S.ws # "null"
                THEN (IF S.ws = "CONNECTING" THEN "throw" ELSE "ping")
                ELSE "none")
    /\ UNCHANGED <<storage, wsClients, fvars>>

----------------------------------------------------------------------------
\* apiClient.connectWebSocket / disconnectWebSocket / disconnectAllWebSockets

Created == {c \in ClientIds : inst[c].exists}

\* the handlers object replaced instead of updated key by key
OnAll_Replace(S, eventHandlers, keys) == [S EXCEPT !.eventHandlers = eventHandlers]

RECURSIVE OnAll(_, _, _)
OnAll(S, eventHandlers, keys) ==
    IF keys = {}
    THEN S
    ELSE LET k == CHOOSE k \in keys : TRUE
         IN  OnAll(on(S, k, eventHandlers[k]), eventHandlers, keys \ {k})

\* Object.keys(eventHandlers)
KeysOf(eventHandlers) == {k \in HandlerKeys : eventHandlers[k] # 0}

\* a token taken for granted
apiGetToken_Assumed(store) == TRUE

\* getToken() of the api client: whether the stored user data yields a token
apiGetToken(store) == store = "token"

ConnectWebSocket(debateId, eventHandlers, config) ==
    LET called(c, ret) ==
            [Op("connectWebSocket", c, ret) EXCEPT !.key = debateId,
                                                   !.handlers = eventHandlers]
    IN
    IF ~apiGetToken(storage)
    THEN /\ last' = called(0, "throw401")
         /\ inst' = [d \in ClientIds |-> Quiet(inst[d])]
         /\ UNCHANGED <<storage, wsClients, fvars>>
    ELSE IF wsClients[debateId] # 0 /\ inst[wsClients[debateId]].isConnected
    THEN LET c == wsClients[debateId]
             S == OnAll(Begin(c), eventHandlers, KeysOf(eventHandlers))
         IN  /\ inst' = [d \in ClientIds |-> IF d = c THEN S ELSE Quiet(inst[d])]
             /\ last' = called(c, "existing")
             /\ UNCHANGED <<storage, wsClients, fvars>>
    ELSE /\ Cardinality(Created) < MaxClients
         /\ LET c == Cardinality(Created) + 1
                wsClient == getToken(NewClient(debateId, eventHandlers, config))
                S == connect(wsClient)
            IN  /\ Fits(S)
                /\ inst' = [d \in ClientIds |-> IF d = c THEN S ELSE Quiet(inst[d])]
                /\ last' = called(c, "new")
                /\ wsClients' = [wsClients EXCEPT ![debateId] = c]
         /\ UNCHANGED <<storage, fvars>>

\* the registry after wsClients.delete(cacheKey)
Deleted(registry, cacheKey) == [registry EXCEPT ![cacheKey] = 0]

DisconnectWebSocket(debateId) ==
    LET called(c) == [Op("disconnectWebSocket", c, "void") EXCEPT !.key = debateId]
    IN  /\ IF wsClients[debateId] # 0
           THEN LET c == wsClients[debateId]
                    S == disconnect(Begin(c))
                IN  /\ Fits(S)
                    /\ inst' = [d \in ClientIds |-> IF d = c THEN S ELSE Quiet(inst[d])]
                    /\ last' = called(c)
                    /\ wsClients' = Deleted(wsClients, debateId)
           ELSE /\ inst' = [d \in ClientIds |-> Quiet(inst[d])]
                /\ last' = called(0)
                /\ UNCHANGED wsClients
        /\ UNCHANGED <<storage, fvars>>

DisconnectAllWebSockets ==
    /\ inst' = [d \in ClientIds |->
                  IF \E k \in DOMAIN wsClients : wsClients[k] = d
                  THEN disconnect(Quiet(inst[d]))
                  ELSE Quiet(inst[d])]
    /\ wsClients' = [k \in DOMAIN wsClients |-> 0]
    /\ last' = Op("disconnectAllWebSockets", 0, "void")
    /\ UNCHANGED <<storage, fvars>>

\* calls of the owner of the instance c
CallerNext(c) ==
    \/ Connect(c)
    \/ Disconnect(c)
    \/ Reconnect(c)

\* socket events and timers of c
EventNext(c) ==
    \/ SocketOpen(c)
    \/ \E failed \in BOOLEAN : SocketClose(c, failed)
    \/ \E failed \in BOOLEAN : StaleClose(c, "CLOSING", failed)
    \/ TimerFire(c)
    \/ HeartbeatTick(c)

\* events of sockets and timers the instance has lost track of
StaleNext(c) ==
    \/ StaleOpen(c)
    \/ \E st \in {"CONNECTING", "OPEN"}, failed \in BOOLEAN : StaleClose(c, st, failed)
    \/ StrayTimerFire(c)

\* outbound and inbound messages of c
MessageNext(c) ==
    \/ \E ok \in BOOLEAN : Send(c, ok)
    \/ \E f \in Frames : SocketMessage(c, f)
    \/ \E f \in Frames : StaleMessage(c, f)

\* handler registration on c
HandlerNext(c) ==
    \/ \E e \in HandlerKeys, h \in 1..3 : On(c, e, h)
    \/ \E e \in HandlerKeys : Off(c, e)

StorageNext(values) == \E v \in values : StorageChange(v)

RegistryNext ==
    \/ \E k \in Keys, h \in HandlerSets :
         ConnectWebSocket(k, h, [RECONNECT_CONFIG EXCEPT !.maxAttempts = 1])
    \/ \E k \in Keys : DisconnectWebSocket(k)
    \/ DisconnectAllWebSockets

\* one instance made by createWebSocketClient(debateId, eventHandlers, config)
CreatedClient(store, configs) ==
    /\ storage \in store
    /\ wsClients = [k \in Keys |-> 0]
    /\ \E cfg \in configs :
         inst = [c \in ClientIds |->
                   IF c = 1
                   THEN getToken(NewClient("42", [NoHandlers EXCEPT !["onError"] = 1], cfg))
                   ELSE NoClient]
    /\ last = Op("init", 0, "void")

\* one instance, its owner, its sockets and timers, and the credential store
ClientInit == CreatedClient({"absent", "token", "notoken"}, Configs)

ClientNext ==
    \/ StorageNext({"absent", "token", "notoken"})
    \/ CallerNext(1)
    \/ EventNext(1)
    \/ StaleNext(1)

\* one instance with outbound and inbound traffic
QueueInit == CreatedClient({"token"}, {RECONNECT_CONFIG})

QueueNext ==
    \/ CallerNext(1)
    \/ EventNext(1)
    \/ StaleNext(1)
    \/ MessageNext(1)

\* the registry, the instances it makes, their sockets and timers
StreamNext ==
    \/ StorageNext({"absent", "token"})
    \/ RegistryNext
    \/ \E c \in ClientIds : EventNext(c)

\* handler objects as the API document passes them: the on* callbacks with a
\* callback under the message type speech, and a callback under onSpeech
DocHandlerSets ==
    {[NoHandlers EXCEPT !["onMessage"] = 1, !["onError"] = 1, !["speech"] = 2],
     [NoHandlers EXCEPT !["onSpeech"] = 3]}

\* frames of a recognised type, of a type the client does not know, and text
\* that does not parse
DispatchFrames == {f \in Frames : f.type \in {"speech", "unknown_x"} \/ ~f.parses}

\* instances made by apiClient.connectWebSocket without automatic reconnect,
\* and the frames they receive
DispatchInit ==
    /\ storage = "token"
    /\ wsClients = [k \in Keys |-> 0]
    /\ inst = [c \in ClientIds |-> NoClient]
    /\ last = Op("init", 0, "void")

DispatchNext ==
    \/ \E k \in Keys, h \in DocHandlerSets :
         ConnectWebSocket(k, h, [RECONNECT_CONFIG EXCEPT !.enabled = FALSE])
    \/ \E c \in ClientIds : SocketOpen(c)
    \/ \E c \in ClientIds, failed \in BOOLEAN : SocketClose(c, failed)
    \/ \E c \in ClientIds, f \in DispatchFrames : SocketMessage(c, f)

\* one instance without automatic reconnect, its handler registrations and
\* the events that invoke handlers
HandlersInit == CreatedClient({"token"}, {[RECONNECT_CONFIG EXCEPT !.enabled = FALSE]})

HandlersNext ==
    \/ HandlerNext(1)
    \/ Connect(1)
    \/ SocketOpen(1)
    \/ \E failed \in BOOLEAN : SocketClose(1, failed)
    \/ \E f \in DispatchFrames : SocketMessage(1, f)

\* the registry with two debates, the instances it makes with the shipped
\* reconnect policy cut to one attempt, and their sockets and timers
SessionKeys == {"42", "7"}

SessionsInit ==
    /\ storage = "token"
    /\ wsClients = [k \in SessionKeys |-> 0]
    /\ inst = [c \in ClientIds |-> NoClient]
    /\ last = Op("init", 0, "void")

SessionsNext ==
    \/ \E k \in SessionKeys :
         ConnectWebSocket(k, NoHandlers, [RECONNECT_CONFIG EXCEPT !.maxAttempts = 1])
    \/ \E k \in SessionKeys : DisconnectWebSocket(k)
    \/ DisconnectAllWebSockets
    \/ \E c \in ClientIds : EventNext(c)

\* one instance whose owner connects (or reconnects) it and then leaves it to
\* its sockets and timers
RecoveryConfigs == {RECONNECT_CONFIG,
                    [RECONNECT_CONFIG EXCEPT !.maxAttempts = 1],
                    [RECONNECT_CONFIG EXCEPT !.enabled = FALSE]}

RecoveryInit == CreatedClient({"absent", "token"}, RecoveryConfigs)

\* the owner's calls, all made before the first event
OwnerSetup ==
    /\ last.op \in {"init", "connect", "reconnect"}
    /\ (Connect(1) \/ Reconnect(1))

RecoveryNext ==
    \/ OwnerSetup
    \/ StorageNext({"absent", "token"})
    \/ EventNext(1)
    \/ StaleNext(1)

\* a socket that is connecting delivers its open or its close event
Settle(c) ==
    /\ inst[c].ws = "CONNECTING"
    /\ (SocketOpen(c) \/ \E failed \in BOOLEAN : SocketClose(c, failed))

StaleSettle(c) ==
    StaleOpen(c) \/ \E failed \in BOOLEAN : StaleClose(c, "CONNECTING", failed)

\* every connecting socket settles and every timer set fires
RecoveryFairness ==
    /\ WF_vars(Settle(1))
    /\ WF_vars(StaleSettle(1))
    /\ WF_vars(TimerFire(1))
    /\ WF_vars(StrayTimerFire(1))

----------------------------------------------------------------------------
\* Specifications

\* a specification explores one component; the other one rests in its
\* initial state
FetchIdle ==
    /\ policy = RETRY_CONFIG
    /\ fpc = "idle"
    /\ attempt = 1
    /\ calls = 0
    /\ sleeps = <<>>
    /\ statuses = <<>>
    /\ ferror = NoError
    /\ fresp = NoResp
    /\ peer = IdleExecution

InitFetch ==
    /\ FetchInit
    /\ storage = "token"
    /\ wsClients = [k \in Keys |-> 0]
    /\ inst = [c \in ClientIds |-> NoClient]
    /\ last = Op("init", 0, "void")

InitClient == FetchIdle /\ ClientInit

InitQueue == FetchIdle /\ QueueInit

InitStream == FetchIdle /\ StreamInit

InitDispatch == FetchIdle /\ DispatchInit

InitHandlers == FetchIdle /\ HandlersInit

InitSessions == FetchIdle /\ SessionsInit

InitRecovery == FetchIdle /\ RecoveryInit

SpecFetch == InitFetch /\ [][FetchNext]_vars

SpecFetchLive == InitFetch /\ [][FetchNext]_vars /\ FetchFairness

SpecConcurrent == InitFetch /\ [][ConcurrentNext]_vars

SpecClient == InitClient /\ [][ClientNext]_vars

SpecQueue == InitQueue /\ [][QueueNext]_vars

SpecStream == InitStream /\ [][StreamNext]_vars

SpecDispatch == InitDispatch /\ [][DispatchNext]_vars

SpecHandlers == InitHandlers /\ [][HandlersNext]_vars

SpecSessions == InitSessions /\ [][SessionsNext]_vars

SpecRecovery == InitRecovery /\ [][RecoveryNext]_vars /\ RecoveryFairness

----------------------------------------------------------------------------
\* Properties of fetchWithRetry (checked under SpecFetch)

IsSuccess(status) == status >= 200 /\ status <= 299

\* C1: a first attempt that fails with a status in nonRetryableStatuses is the
\* only attempt: one fetch() call, no sleep, and the failure is thrown,
\* whatever maxAttempts is, whatever the message says and even when the code
\* is listed in retryableStatuses too.
C1_NonRetryableOneAttempt ==
    (statuses # <<>> /\ statuses[1] \in NonRetryableStatuses)
        => /\ fpc = "thrown"
           /\ calls = 1
           /\ sleeps = <<>>
           /\ Len(statuses) = 1
           /\ ferror.name = "APIError"
           /\ ferror.status = statuses[1]

C1_Witness ==
    /\ fpc = "thrown"
    /\ policy.maxAttempts = 3
    /\ statuses = <<404>>
    /\ 404 \in policy.retryableStatuses
    /\ Includes(ferror.message, "ECONNRESET")
    /\ calls = 1

\* C2: under a policy whose two lists are disjoint, a run in which every
\* attempt fails with a status in retryableStatuses makes exactly maxAttempts
\* fetch() calls and then throws; the n-th sleep is
\* retryDelay * backoffMultiplier^(n-1) and none follows the last attempt
\* (3 calls, sleeps of 1000 and 2000 ms under the shipped policy).
ValidPolicy == policy.retryableStatuses \cap policy.nonRetryableStatuses = {}

AllRetryableStatus ==
    /\ statuses # <<>>
    /\ \A i \in DOMAIN statuses : statuses[i] \in policy.retryableStatuses

C2_RetryableExhausts ==
    (ValidPolicy /\ AllRetryableStatus)
        => /\ fpc # "returned"
           /\ (fpc = "thrown") <=> (Len(statuses) = policy.maxAttempts)
           /\ fpc = "thrown" =>
                 /\ calls = policy.maxAttempts
                 /\ Len(sleeps) = policy.maxAttempts - 1
                 /\ ferror.status = statuses[Len(statuses)]
           /\ fpc = "sleeping" => Len(sleeps) = Len(statuses)
           /\ \A n \in DOMAIN sleeps :
                 sleeps[n] = policy.retryDelay * Pow(2, n - 1)
           /\ (policy = RETRY_CONFIG /\ fpc = "thrown")
                 => (calls = 3 /\ sleeps = <<1000, 2000>>)

C2_Witness ==
    /\ policy = RETRY_CONFIG
    /\ fpc = "thrown"
    /\ statuses = <<503, 429, 500>>
    /\ calls = 3
    /\ sleeps = <<1000, 2000>>

\* C3: a success response ends the execution at once: it is the last settled
\* attempt, it is what the call returns, and the calls and sleeps made are
\* those of the attempts up to it; outcomes 503, 503, 200 with maxAttempts 3
\* return the 200 response after 3 calls and sleeps of 1000 then 2000 ms.
C3_SuccessStops ==
    /\ \A i \in DOMAIN statuses :
          IsSuccess(statuses[i])
              => /\ i = Len(statuses)
                 /\ fpc = "returned"
                 /\ fresp.status = statuses[i]
                 /\ calls = i
                 /\ Len(sleeps) = i - 1
                 /\ i <= policy.maxAttempts
                 /\ ferror = NoError
    /\ (statuses = <<503, 503, 200>> /\ policy.maxAttempts = 3
          /\ policy.retryDelay = 1000)
          => (fpc = "returned" /\ calls = 3 /\ sleeps = <<1000, 2000>>)

C3_Witness ==
    /\ policy = RETRY_CONFIG
    /\ statuses = <<503, 503, 200>>
    /\ fpc = "returned"
    /\ fresp.status = 200

----------------------------------------------------------------------------
\* Properties of the outbound queue (checked under SpecQueue)

Emitted(S, eventName) == \E i \in DOMAIN S.emitted : S.emitted[i].name = eventName

AllSerialisable(messages) == \A i \in DOMAIN messages : messages[i].ok

\* C4: send() on an instance that is not connected appends the message to the
\* queue and returns false without transmitting; when a socket of the instance
\* then opens, handleOpen hands every queued message to the transport in the
\* original order and leaves the queue empty (stated for queues whose messages
\* can all be serialised).
C4_QueuedThenFlushed ==
    [][\A c \in ClientIds :
         /\ (last'.op = "send" /\ last'.c = c /\ ~inst[c].isConnected)
               => /\ last'.ret = "false"
                  /\ inst'[c].wire = inst[c].wire
                  /\ \E m \in [id : {inst'[c].nsent}, ok : BOOLEAN] :
                        inst'[c].messageQueue = Append(inst[c].messageQueue, m)
         /\ (last'.op \in {"open", "staleOpen"} /\ last'.c = c
                /\ AllSerialisable(inst[c].messageQueue))
               => /\ inst'[c].messageQueue = <<>>
                  /\ inst'[c].wire = inst[c].wire \o inst[c].messageQueue]_vars

\* C5: messages reach the transport in the order of their send() calls: the
\* i-th message handed to the transport is the i-th message passed to send()
\* (stated for runs in which every message can be serialised, so that the only
\* transmission failures are those of the socket).
C5_SendOrder ==
    \A c \in ClientIds :
        (AllSerialisable(inst[c].wire) /\ AllSerialisable(inst[c].messageQueue))
            => \A i \in DOMAIN inst[c].wire : inst[c].wire[i].id = i

----------------------------------------------------------------------------
\* Properties of reconnection and teardown (checked under SpecClient)

\* the automatic attempts are used up and the failure has been notified:
\* onReconnectFailed was emitted since the last open or reconnect() and no
\* reconnect timer is pending
Exhausted(c) ==
    /\ inst[c].notices >= 1
    /\ inst[c].reconnectTimer # "pending"
    /\ inst[c].strayTimers = 0

\* C6: once the automatic attempts are used up, and until the owner calls
\* reconnect(), no step schedules a reconnect timer, no step other than a
\* call of connect() constructs a socket, and onReconnectFailed is not emitted
\* a second time.
C6_ExhaustedOnce ==
    [][\A c \in ClientIds :
         (Exhausted(c) /\ last'.op # "reconnect")
            => /\ inst'[c].reconnectTimer # "pending"
               /\ (inst'[c].opened = 0 \/ last'.op = "connect")
               /\ ~Emitted(inst'[c], "onReconnectFailed")]_vars

\* C7: from the return of disconnect() until the owner calls connect() or
\* reconnect(), no step constructs a socket and no reconnect timer is
\* scheduled.
C7_QuietAfterDisconnect ==
    \A c \in ClientIds :
        inst[c].disconnected
            => (inst[c].opened = 0 /\ inst[c].reconnectTimer # "pending")

\* C10: when connect() runs (called by the owner, by a reconnect timer or by
\* reconnect()) while the credential store holds no token, it constructs no
\* socket, leaves the instance neither connecting nor connected, and emits
\* onError.
C10_NoCredentialNoSocket ==
    [][\A c \in ClientIds :
         (/\ last'.c = c
          /\ storage # "token"
          /\ \/ last'.op = "reconnect"
             \/ /\ last'.op \in {"connect", "timer", "strayTimer"}
                /\ ~inst[c].isConnecting
                /\ ~inst[c].isConnected)
            => /\ inst'[c].opened = 0
               /\ ~inst'[c].isConnecting
               /\ ~inst'[c].isConnected
               /\ Emitted(inst'[c], "onError")]_vars

----------------------------------------------------------------------------
\* Properties of the registry (checked under SpecStream)

\* an instance that is connecting, open, or waiting on its reconnect timer
Live(c) ==
    /\ inst[c].exists
    /\ \/ inst[c].isConnecting
       \/ inst[c].isConnected
       \/ inst[c].reconnectTimer = "pending"

\* C8: for every session key at most one instance made by connectWebSocket is
\* live, and a live instance is the one the registry holds for its key.
C8_OneLivePerKey ==
    \A c \in ClientIds : Live(c) => wsClients[inst[c].debateId] = c

\* C9 as stated: connectWebSocket(key, handlers) on a key whose registered
\* instance is open returns that instance, constructs no socket and merges
\* the handlers channel by channel.
Merged(old, new) == [k \in HandlerKeys |-> IF new[k] # 0 THEN new[k] ELSE old[k]]

ReusesOpenInstance(c) ==
    /\ last'.ret = "existing"
    /\ last'.c = c
    /\ wsClients' = wsClients
    /\ \A d \in ClientIds : inst'[d].opened = 0
    /\ \A d \in ClientIds \ {c} : inst'[d] = Quiet(inst[d])
    /\ inst'[c] = [Quiet(inst[c]) EXCEPT
                     !.eventHandlers = Merged(inst[c].eventHandlers, last'.handlers)]

C9_ReuseAlways ==
    [][\A k \in Keys :
         (/\ last'.op = "connectWebSocket"
          /\ last'.key = k
          /\ wsClients[k] # 0
          /\ inst[wsClients[k]].isConnected)
            => ReusesOpenInstance(wsClients[k])]_vars

\* C9: the same, when the credential store holds a token at the call.
C9_ReuseWithCredential ==
    [][\A k \in Keys :
         (/\ last'.op = "connectWebSocket"
          /\ last'.key = k
          /\ storage = "token"
          /\ wsClients[k] # 0
          /\ inst[wsClients[k]].isConnected)
            => ReusesOpenInstance(wsClients[k])]_vars

C9_Witness ==
    /\ last.op = "connectWebSocket"
    /\ last.ret = "existing"
    /\ last.handlers = [NoHandlers EXCEPT !["onMessage"] = 2]
    /\ inst[last.c].isConnected
    /\ inst[last.c].eventHandlers = [NoHandlers EXCEPT !["onMessage"] = 2, !["onError"] = 1]

----------------------------------------------------------------------------
\* Inbound frames

\* the channel on which a message of each recognised type is delivered
TypedChannel ==
    [t \in {"speech", "status", "score", "notification", "error", "connected"} |->
        CASE t = "speech" -> "onSpeech"
          [] t = "status" -> "onStatus"
          [] t = "score" -> "onScore"
          [] t = "notification" -> "onNotification"
          [] t = "error" -> "onError"
          [] t = "connected" -> "onConnected"]

\* the (channel, payload) pairs of the deliveries of a step, in order
Deliveries(S) == [i \in DOMAIN S.emitted |-> <<S.emitted[i].name, S.emitted[i].data>>]

\* a message event for the instance c has just been handled, and its frame
\* parsed to a message (an object, with or without a type)
MessageHandled(c) ==
    /\ last'.op \in {"message", "staleMessage"}
    /\ last'.c = c
    /\ last'.frame.parses
    /\ ~last'.frame.isNull

\* C11: every inbound frame that parses to a message is delivered exactly
\* once to onMessage; a frame whose type is one of speech, status, score,
\* notification, error, connected is first delivered, with the same payload,
\* to the channel of its type, and no other frame is delivered to a typed
\* channel; handling the frame changes nothing else of the connection.
C11_TypedThenCatchAll ==
    [][\A c \in ClientIds :
         MessageHandled(c)
            => LET frame == last'.frame
               IN  /\ Deliveries(inst'[c]) =
                        IF frame.type \in DOMAIN TypedChannel
                        THEN << <<TypedChannel[frame.type], frame>>, <<"onMessage", frame>> >>
                        ELSE << <<"onMessage", frame>> >>
                   /\ Quiet(inst'[c]) = Quiet(inst[c])]_vars

C11_Witness ==
    /\ last.op = "message"
    /\ last.frame.type = "score"
    /\ inst[last.c].ws = "OPEN"
    /\ inst[last.c].isConnected
    /\ Deliveries(inst[last.c]) =
          << <<"onScore", last.frame>>, <<"onMessage", last.frame>> >>

C11_WitnessUnrecognized ==
    /\ last.op = "message"
    /\ last.frame.type = "unknown_x"
    /\ inst[last.c].isConnected
    /\ Deliveries(inst[last.c]) = << <<"onMessage", last.frame>> >>

----------------------------------------------------------------------------
\* Retry decisions of fetchWithRetry (checked under SpecFetch)

\* the i-th attempt failed and was followed by a sleep towards another attempt
Retried(i) == i <= Len(sleeps)

\* C12: under a policy whose two lists are disjoint, an attempt that failed
\* with an HTTP status and was not the last one allowed is retried if and
\* only if the status is in retryableStatuses; a status in neither list
\* (409) ends the execution after that attempt whatever the error message
\* says.
C12_StatusDecidesRetry ==
    ValidPolicy =>
        \A i \in DOMAIN statuses :
            (statuses[i] # 0 /\ ~IsSuccess(statuses[i]) /\ i < policy.maxAttempts)
                => (Retried(i) <=> statuses[i] \in policy.retryableStatuses)

\* C13: every backoff sleep is min(retryDelay * backoffMultiplier^(n-1),
\* maxDelay) with maxDelay = 30000 ms, so no sleep exceeds 30000 ms.
C13_SleepCapped ==
    \A n \in DOMAIN sleeps :
        /\ sleeps[n] = Min(policy.retryDelay * Pow(policy.backoffMultiplier, n - 1), 30000)
        /\ sleeps[n] <= 30000

\* the attempt that has just failed got no response: fetch() rejected
TransportFailure == statuses # <<>> /\ statuses[Len(statuses)] = 0 /\ ferror # NoError

\* a TypeError whose message names fetch, as the fetch layer raises it
FetchLayerTypeError(error) ==
    error.name = "TypeError" /\ \E i \in DOMAIN error.message : error.message[i] = "fetch"

NamesNetworkCode(error) ==
    \E i \in DOMAIN error.message :
        error.message[i] \in {"ECONNRESET", "ETIMEDOUT", "EAI_AGAIN"}

\* C14: an attempt that fails without a response and is not the last one
\* allowed is followed by a sleep and another attempt if and only if the
\* error is a fetch-layer TypeError or names ECONNRESET, ETIMEDOUT or
\* EAI_AGAIN; any other error is thrown to the caller at once, and when it
\* is the first failure the execution made exactly one attempt.
C14_TransportRetry ==
    (TransportFailure /\ fpc \in {"sleeping", "thrown"})
        => LET n == Len(statuses)
               retryable == FetchLayerTypeError(ferror) \/ NamesNetworkCode(ferror)
           IN  /\ (fpc = "sleeping") <=> (retryable /\ n < policy.maxAttempts)
               /\ (fpc = "thrown" /\ ~retryable) => (calls = n /\ Len(sleeps) = n - 1)
               /\ (fpc = "thrown" /\ ~retryable /\ n = 1) => (calls = 1 /\ sleeps = <<>>)

C14_Witness ==
    /\ fpc = "thrown"
    /\ policy.maxAttempts = 3
    /\ statuses = <<0>>
    /\ ferror.name = "TypeError"
    /\ ferror.message = <<"Load", "failed">>
    /\ calls = 1

C14_WitnessRetried ==
    /\ fpc = "sleeping"
    /\ statuses = <<0, 0>>
    /\ ferror.name = "Error"
    /\ NamesNetworkCode(ferror)

----------------------------------------------------------------------------
\* Error notifications of the stream client

\* the socket the instance c references has just closed without disconnect()
\* having been called, and the close handler scheduled a reconnect attempt
ClosedAndRescheduled(c) ==
    /\ last'.op = "close"
    /\ last'.c = c
    /\ inst[c].shouldReconnect
    /\ inst'[c].reconnectTimer = "pending"
    /\ inst'[c].reconnectAttempts = inst[c].reconnectAttempts + 1

\* C15: a transport error or unintentional close that is followed by an
\* automatic reconnect attempt notifies no subscriber on the error channel.
C15_TransientErrorsSilent ==
    [][\A c \in ClientIds :
         ClosedAndRescheduled(c) => ~Emitted(inst'[c], "onError")]_vars

----------------------------------------------------------------------------
\* What fetchWithRetry throws (checked under SpecFetch)

\* C16: whatever fetchWithRetry throws, on the first or on a later attempt,
\* has a non-empty message and a kind: an HTTP-status failure is an APIError
\* carrying the non-2xx status of the last response, a failure without a
\* response keeps the name of the error the transport raised.
C16_SurfacedErrorDescribed ==
    fpc = "thrown"
        => LET status == statuses[Len(statuses)]
           IN  /\ ferror # NoError
               /\ Len(ferror.message) > 0
               /\ ferror.name \in {"APIError", "TypeError", "Error", "AbortError"}
               /\ status # 0 => /\ ferror.name = "APIError"
                                /\ ferror.status = status
                                /\ ~(status >= 200 /\ status <= 299)
               /\ status = 0 => ferror.name # "APIError"

C16_Witness ==
    /\ fpc = "thrown"
    /\ calls = 3
    /\ statuses = <<0, 503, 500>>
    /\ ferror.name = "APIError"
    /\ ferror.status = 500
    /\ ferror.message = <<"HTTP", "500">>

----------------------------------------------------------------------------
\* send (checked under SpecQueue)

\* send(m) has just been called on the instance c
SendCalled(c, m) ==
    /\ last'.op = "send"
    /\ last'.c = c
    /\ m.id = inst'[c].nsent

\* the result of a send call is consistent: true with m handed to the
\* transport and the queue untouched, or false with m appended once to the
\* queue and nothing transmitted
SendResult(c, m) ==
    \/ /\ last'.ret = "true"
       /\ inst'[c].wire = Append(inst[c].wire, m)
       /\ inst'[c].messageQueue = inst[c].messageQueue
    \/ /\ last'.ret = "false"
       /\ inst'[c].wire = inst[c].wire
       /\ inst'[c].messageQueue = Append(inst[c].messageQueue, m)

\* C17: send(m) returns true exactly when m was handed to the transport in
\* the call, leaving the queue unchanged, and otherwise returns false with m
\* appended once to the queue; on an instance that is Open (isConnected) a
\* message that can be serialised is transmitted at once and true returned.
C17_SendResult ==
    [][\A c \in ClientIds : \A m \in [id : 1..(MaxSends + 1), ok : BOOLEAN] :
         SendCalled(c, m)
            => /\ \E n \in [id : {m.id}, ok : BOOLEAN] : SendResult(c, n)
               /\ (inst[c].isConnected /\ m.ok /\ SendResult(c, m))
                     => last'.ret = "true"]_vars

\* the first sentence of C17 alone
SendResultConsistent ==
    [][\A c \in ClientIds : \A m \in [id : 1..(MaxSends + 1), ok : BOOLEAN] :
         SendCalled(c, m) => \E n \in [id : {m.id}, ok : BOOLEAN] : SendResult(c, n)]_vars

----------------------------------------------------------------------------
\* disconnect (checked under SpecClient)

\* C18: a disconnect() called when disconnect() was the caller's last call
\* (no connect() or reconnect() since) changes no field of the instance,
\* closes no socket and emits no event.
C18_DisconnectIdempotent ==
    [][\A c \in ClientIds :
         (last'.op = "disconnect" /\ last'.c = c /\ inst[c].disconnected)
            => /\ Quiet(inst'[c]) = Quiet(inst[c])
               /\ inst'[c].emitted = <<>>]_vars

\* the same, for a second disconnect() that follows the first one directly
DisconnectTwice ==
    [][\A c \in ClientIds :
         (last'.op = "disconnect" /\ last'.c = c /\ last.op = "disconnect")
            => /\ Quiet(inst'[c]) = Quiet(inst[c])
               /\ inst'[c].emitted = <<>>]_vars

----------------------------------------------------------------------------
\* Handlers keyed by message type (checked under SpecDispatch)

\* C19: a handler registered through connectWebSocket under a key equal to a
\* message type (speech) is invoked, with the frame, for every inbound frame
\* of that type.
C19_TypeKeyedHandlerInvoked ==
    [][\A c \in ClientIds :
         (/\ last'.op = "message"
          /\ last'.c = c
          /\ last'.frame.parses
          /\ last'.frame.type = "speech"
          /\ inst[c].eventHandlers["speech"] # 0)
            => \E i \in DOMAIN inst'[c].emitted :
                  /\ inst'[c].emitted[i].handler = inst[c].eventHandlers["speech"]
                  /\ inst'[c].emitted[i].data = last'.frame]_vars

----------------------------------------------------------------------------
\* Interleaved executions (checked under SpecConcurrent)

\* what an execution that runs alone satisfies: its attempt number, its
\* fetch() calls and its sleeps follow from the outcomes of its own attempts
RunsAsAlone(E) ==
    LET n == Len(E.statuses)
    IN  IF E.fpc = "idle"
        THEN E = IdleExecution
        ELSE /\ E.calls = n + (IF E.fpc = "fetching" THEN 1 ELSE 0)
             /\ E.attempt = E.calls
             /\ E.calls <= policy.maxAttempts
             /\ Len(E.sleeps) = E.calls - (IF E.fpc = "sleeping" THEN 0 ELSE 1)
             /\ \A k \in DOMAIN E.sleeps :
                   E.sleeps[k] = policy.retryDelay * Pow(policy.backoffMultiplier, k - 1)
             /\ \A i \in 1..n : IsSuccess(E.statuses[i]) => (i = n /\ E.fpc = "returned")
             /\ E.fpc = "returned" => (n > 0 /\ E.fresp.status = E.statuses[n])
             /\ E.fpc = "sleeping" => (isRetryableError(E.ferror) /\ n < policy.maxAttempts)
             /\ E.fpc = "thrown" => /\ ~isRetryableError(E.ferror) \/ n = policy.maxAttempts
                                    /\ E.statuses[n] # 0 => E.ferror.status = E.statuses[n]

\* C20: with two executions interleaved at their awaits, a step of one
\* execution leaves every parameter and local of the other as it was, no
\* step writes the policy, and each execution's attempt number, calls,
\* sleeps and outcome are those it has when it runs alone.
C20_ExecutionsIndependent ==
    [][/\ policy' = policy
       /\ \/ peer' = peer
          \/ peer' = Locals /\ Locals' = peer
       /\ RunsAsAlone(Locals)'
       /\ RunsAsAlone(peer)']_vars

C20_Witness ==
    /\ policy = RETRY_CONFIG
    /\ fpc = "thrown"
    /\ calls = 3
    /\ sleeps = <<1000, 2000>>
    /\ statuses = <<503, 0, 503>>
    /\ peer.fpc = "sleeping"
    /\ peer.attempt = 1
    /\ peer.sleeps = <<1000>>

----------------------------------------------------------------------------
\* Events of sockets the instance no longer references

\* C21: an open, message, error or close event of a socket that is not the
\* instance's current one changes neither isConnecting nor isConnected,
\* neither timer nor the attempt counter, and emits no event.
C21_StaleEventsIgnored ==
    [][\A c \in ClientIds :
         (last'.op \in {"staleOpen", "staleMessage", "staleClose"} /\ last'.c = c)
            => /\ inst'[c].isConnecting = inst[c].isConnecting
               /\ inst'[c].isConnected = inst[c].isConnected
               /\ inst'[c].heartbeatTimer = inst[c].heartbeatTimer
               /\ inst'[c].reconnectTimer = inst[c].reconnectTimer
               /\ inst'[c].reconnectAttempts = inst[c].reconnectAttempts
               /\ inst'[c].emitted = <<>>]_vars

\* C22: an instance never has more than one socket that is connecting or
\* open, and never constructs a socket while one it constructed earlier is
\* still connecting or open.
ConnectingOrOpen(S) ==
    (IF S.ws \in {"CONNECTING", "OPEN"} THEN 1 ELSE 0) + S.stale.CONNECTING + S.stale.OPEN

C22_OneTransport == \A c \in ClientIds : ConnectingOrOpen(inst[c]) <= 1

\* C23: every pending reconnect timer of an instance is the one recorded in
\* reconnectTimer (so there is at most one, and disconnect() cancels it).
C23_OneRecordedTimer == \A c \in ClientIds : inst[c].strayTimers = 0

----------------------------------------------------------------------------
\* Reconnect backoff (checked under SpecClient)

\* C24: a step schedules at most one reconnect timer; the timer that makes
\* reconnectAttempts k is set to min(baseDelay * backoffMultiplier^(k-1),
\* maxDelay), which is 1000, 2000, 4000, 8000, 16000 ms for k = 1..5 under
\* the defaults and never above maxDelay; scheduling it adds exactly one to
\* reconnectAttempts (counted from 0 when the step is reconnect()), and a
\* step that schedules nothing adds nothing.
C24_BackoffDelays ==
    [][\A c \in ClientIds :
         LET S == inst'[c]
             k == S.reconnectAttempts
             before == IF last'.op = "reconnect" /\ last'.c = c
                       THEN 0 ELSE inst[c].reconnectAttempts
         IN  /\ Len(S.scheduled) <= 1
             /\ S.scheduled = <<>> => (k = before \/ k = 0)
             /\ S.scheduled # <<>> =>
                  /\ k = before + 1
                  /\ S.scheduled[1] = Min(S.config.baseDelay * Pow(2, k - 1), 30000)
                  /\ S.scheduled[1] <= 30000
                  /\ S.config.baseDelay = 1000 =>
                        S.scheduled[1] = <<1000, 2000, 4000, 8000, 16000>>[k]]_vars

C24_Witness ==
    \E c \in ClientIds :
        /\ inst[c].config = RECONNECT_CONFIG
        /\ last.op = "close"
        /\ inst[c].reconnectAttempts = 5
        /\ inst[c].scheduled = <<16000>>

C24_WitnessCapped ==
    \E c \in ClientIds :
        /\ inst[c].config.baseDelay = 20000
        /\ inst[c].reconnectAttempts = 2
        /\ inst[c].scheduled = <<30000>>

\* C25: every open event sets reconnectAttempts to 0, the counter is 0 for as
\* long as the instance is Open, and a closure of an Open instance that may
\* reconnect schedules the first timer of a new run: delay baseDelay,
\* reconnectAttempts 1 of maxAttempts.
C25_OpenResetsAttempts ==
    [][\A c \in ClientIds :
         /\ (last'.op \in {"open", "staleOpen"} /\ last'.c = c)
               => inst'[c].reconnectAttempts = 0
         /\ inst'[c].isConnected => inst'[c].reconnectAttempts = 0
         /\ (/\ last'.op \in {"close", "staleClose"}
             /\ last'.c = c
             /\ inst[c].isConnected
             /\ inst[c].shouldReconnect
             /\ inst[c].config.enabled)
               => /\ inst'[c].scheduled = <<inst[c].config.baseDelay>>
                  /\ inst'[c].reconnectAttempts = 1
                  /\ ~Emitted(inst'[c], "onReconnectFailed")]_vars

\* a socket opens after a reconnect timer has fired, and the counter is 0
C25_Witness ==
    \E c \in ClientIds :
        /\ last.op = "open"
        /\ last.c = c
        /\ inst[c].reconnectTimer = "fired"
        /\ inst[c].isConnected
        /\ inst[c].reconnectAttempts = 0

\* an instance that was open again after a reconnect closes again
C25_WitnessNextClosure ==
    \E c \in ClientIds :
        /\ last.op = "close"
        /\ last.c = c
        /\ inst[c].config.maxAttempts = 5
        /\ inst[c].scheduled = <<1000>>
        /\ inst[c].reconnectAttempts = 1
        /\ inst[c].strayTimers = 0

----------------------------------------------------------------------------
\* Heartbeat (checked under SpecClient)

\* C26: after every operation and event heartbeatTimer is set exactly when
\* isConnected holds and the instance has at most one live interval, the one
\* it records; a heartbeat tick sends a ping only when isConnected holds and
\* a socket is referenced, and leaves the outbound queue as it was.
C26_HeartbeatWhileOpen ==
    [][\A c \in ClientIds :
         /\ inst'[c].heartbeatTimer <=> inst'[c].isConnected
         /\ inst'[c].heartbeats = IF inst'[c].heartbeatTimer THEN 1 ELSE 0
         /\ (last'.op = "heartbeat" /\ last'.c = c)
               => /\ last'.ret = "ping" => (inst[c].isConnected /\ inst[c].ws # "null")
                  /\ inst'[c].messageQueue = inst[c].messageQueue
                  /\ Quiet(inst'[c]) = Quiet(inst[c])]_vars

C26_Witness ==
    \E c \in ClientIds :
        /\ last.op = "heartbeat"
        /\ last.c = c
        /\ last.ret = "ping"
        /\ inst[c].ws = "OPEN"
        /\ inst[c].isConnected
        /\ inst[c].heartbeats = 1
        /\ inst[c].stale.OPEN = 1

----------------------------------------------------------------------------
\* When a reconnect is scheduled (checked under SpecClient)

\* handleClose has just run on c (a close event), or handleConnectionError
\* has (a connect() that failed for want of a credential)
ClosureHandled(c) ==
    /\ last'.c = c
    /\ \/ last'.op \in {"close", "staleClose"}
       \/ /\ last'.op \in {"connect", "timer", "strayTimer"}
          /\ Emitted(inst'[c], "onError")

\* C27: when handleClose or handleConnectionError runs, a reconnect timer is
\* scheduled if and only if shouldReconnect and config.enabled hold and
\* reconnectAttempts < maxAttempts; an instance with enabled = false never
\* schedules a timer and never emits onReconnectFailed.
C27_ScheduledIffAllowed ==
    [][\A c \in ClientIds :
         /\ ClosureHandled(c)
               => ((inst'[c].scheduled # <<>>)
                     <=> (/\ inst[c].shouldReconnect
                          /\ inst[c].config.enabled
                          /\ inst[c].reconnectAttempts < inst[c].config.maxAttempts))
         /\ ~inst'[c].config.enabled
               => /\ inst'[c].scheduled = <<>>
                  /\ inst'[c].reconnectTimer = "null"
                  /\ inst'[c].strayTimers = 0
                  /\ ~Emitted(inst'[c], "onReconnectFailed")]_vars

C27_Witness ==
    \E c \in ClientIds :
        /\ last.op = "close"
        /\ last.c = c
        /\ inst[c].config.maxAttempts = 1
        /\ inst[c].shouldReconnect
        /\ inst[c].reconnectAttempts = 1
        /\ inst[c].scheduled = <<>>
        /\ Emitted(inst[c], "onReconnectFailed")

C27_WitnessDisabled ==
    \E c \in ClientIds :
        /\ last.op = "connect"
        /\ ~inst[c].config.enabled
        /\ inst[c].shouldReconnect
        /\ Emitted(inst[c], "onError")
        /\ inst[c].reconnectTimer = "null"

----------------------------------------------------------------------------
\* reconnect() (checked under SpecClient)

\* reconnect() has just been called on c
ReconnectCalled(c) == last'.op = "reconnect" /\ last'.c = c

\* what reconnect() does in every state: shouldReconnect is true, the
\* heartbeat is stopped, the instance is not Open, and the socket it
\* referenced, if any, is closed and no longer referenced
ReconnectTearsDown(c) ==
    /\ inst'[c].shouldReconnect
    /\ ~inst'[c].heartbeatTimer
    /\ ~inst'[c].isConnected
    /\ inst'[c].strayTimers = inst[c].strayTimers
    /\ inst'[c].stale.CONNECTING = inst[c].stale.CONNECTING
    /\ inst'[c].stale.OPEN = inst[c].stale.OPEN
    /\ inst'[c].stale.CLOSING =
          inst[c].stale.CLOSING
             + (IF inst[c].ws \in {"CONNECTING", "OPEN", "CLOSING"} THEN 1 ELSE 0)

\* the connect attempt of reconnect() constructed a socket
ReconnectOpensSocket(c) ==
    /\ inst'[c].opened = 1
    /\ inst'[c].ws = "CONNECTING"
    /\ inst'[c].isConnecting
    /\ inst'[c].reconnectAttempts = 0
    /\ inst'[c].reconnectTimer = "null"
    /\ inst'[c].scheduled = <<>>
    /\ inst'[c].emitted = <<>>

C28_WitnessNoCredential ==
    \E c \in ClientIds :
        /\ last.op = "reconnect"
        /\ last.c = c
        /\ inst[c].opened = 0
        /\ inst[c].reconnectAttempts = 1
        /\ inst[c].stale.CLOSING = 1

----------------------------------------------------------------------------
\* Malformed frames (checked under SpecQueue)

\* C29: a frame that JSON.parse rejects is delivered to no channel and
\* changes no field of the instance: flags, counters, timers, sockets and
\* the outbound queue are as before.
C29_MalformedDropped ==
    [][\A c \in ClientIds :
         (/\ last'.op \in {"message", "staleMessage"}
          /\ last'.c = c
          /\ ~last'.frame.parses)
            => /\ inst'[c].emitted = <<>>
               /\ inst'[c].scheduled = <<>>
               /\ inst'[c].opened = 0
               /\ Quiet(inst'[c]) = Quiet(inst[c])]_vars

C29_Witness ==
    \E c \in ClientIds :
        /\ last.op = "message"
        /\ last.c = c
        /\ ~last.frame.parses
        /\ inst[c].ws = "OPEN"
        /\ inst[c].isConnected
        /\ inst[c].heartbeatTimer
        /\ inst[c].messageQueue # <<>>
        /\ inst[c].emitted = <<>>

----------------------------------------------------------------------------
\* Handler registration (checked under SpecHandlers)

\* the handlers of S with the handler of one channel set to h
WithHandler(S, channel, h) ==
    [k \in DOMAIN S.eventHandlers |-> IF k = channel THEN h ELSE S.eventHandlers[k]]

\* every delivery of the step on a channel that can hold a handler invoked
\* the one handler registered for it before the step, or none if there is
\* none (0)
InvokesRegistered(c) ==
    \A i \in DOMAIN inst'[c].emitted :
        LET d == inst'[c].emitted[i]
        IN  d.name \in DOMAIN inst[c].eventHandlers
               => d.handler = inst[c].eventHandlers[d.name]

\* C30: on(channel, h) replaces the handler of that channel by h and off(
\* channel) removes it, neither touching another channel or any other field;
\* every event invokes, per delivery, exactly the handler registered for the
\* channel at that time, and no event changes a registration.
C30_OneHandlerPerChannel ==
    [][\A c \in ClientIds :
         /\ (last'.op = "on" /\ last'.c = c)
               => /\ inst'[c].eventHandlers =
                        WithHandler(inst[c], last'.key, last'.handlers[last'.key])
                  /\ inst'[c].emitted = <<>>
                  /\ [inst'[c] EXCEPT !.eventHandlers = inst[c].eventHandlers] = Quiet(inst[c])
         /\ (last'.op = "off" /\ last'.c = c)
               => /\ inst'[c].eventHandlers = WithHandler(inst[c], last'.key, 0)
                  /\ inst'[c].emitted = <<>>
                  /\ [inst'[c] EXCEPT !.eventHandlers = inst[c].eventHandlers] = Quiet(inst[c])
         /\ (last'.op \notin {"on", "off"} /\ last'.c = c)
               => /\ inst'[c].eventHandlers = inst[c].eventHandlers
                  /\ InvokesRegistered(c)]_vars

\* a speech frame invokes a handler that on() put in place of an earlier one,
\* and the catch-all handler, removed by off(), is not invoked
C30_Witness ==
    \E c \in ClientIds :
        /\ last.op = "message"
        /\ last.c = c
        /\ last.frame.type = "speech"
        /\ inst[c].eventHandlers["onSpeech"] = 3
        /\ inst[c].eventHandlers["onError"] = 0
        /\ inst[c].eventHandlers["onMessage"] = 0
        /\ Len(inst[c].emitted) = 2
        /\ inst[c].emitted[1].handler = 3
        /\ inst[c].emitted[2].handler = 0

----------------------------------------------------------------------------
\* Properties of the registry's teardown (checked under SpecSessions)

\* the instance as disconnect() leaves it: no automatic reconnect, no recorded
\* reconnect timer, no heartbeat interval, no referenced socket, neither
\* connecting nor connected
TornDown(S) ==
    /\ ~S.shouldReconnect
    /\ S.reconnectTimer # "pending"
    /\ ~S.heartbeatTimer
    /\ S.heartbeats = 0
    /\ S.ws = "null"
    /\ ~S.isConnecting
    /\ ~S.isConnected

\* close() was called on the socket the instance referenced
ClosedSocketOf(before, after) ==
    after.stale = IF before.ws \in {"CONNECTING", "OPEN", "CLOSING"}
                  THEN [before.stale EXCEPT !.CLOSING = @ + 1]
                  ELSE before.stale

\* C31: disconnectWebSocket(key) on a registered key removes the entry of key
\* (and no other) and leaves the instance that was registered torn down, its
\* socket closed; disconnectAllWebSockets() does so for every key and leaves
\* the registry empty; disconnectWebSocket(key) on an unregistered key changes
\* neither the registry nor any instance.
C31_RegistryTeardown ==
    [][/\ \A k \in DOMAIN wsClients :
            (last'.op = "disconnectWebSocket" /\ last'.key = k)
               => IF wsClients[k] # 0
                  THEN /\ wsClients'[k] = 0
                       /\ \A j \in DOMAIN wsClients \ {k} : wsClients'[j] = wsClients[j]
                       /\ TornDown(inst'[wsClients[k]])
                       /\ ClosedSocketOf(inst[wsClients[k]], inst'[wsClients[k]])
                  ELSE /\ wsClients' = wsClients
                       /\ storage' = storage
                       /\ \A d \in ClientIds : inst'[d] = Quiet(inst[d])
       /\ last'.op = "disconnectAllWebSockets"
            => \A k \in DOMAIN wsClients :
                  /\ wsClients'[k] = 0
                  /\ wsClients[k] # 0
                       => /\ TornDown(inst'[wsClients[k]])
                          /\ ClosedSocketOf(inst[wsClients[k]], inst'[wsClients[k]])]_vars

\* disconnectWebSocket has torn down one of two registered instances, which
\* was open, and the other one is still registered and open
C31_Witness ==
    /\ last.op = "disconnectWebSocket"
    /\ last.c # 0
    /\ wsClients[last.key] = 0
    /\ inst[last.c].stale.CLOSING > 0
    /\ TornDown(inst[last.c])
    /\ \E k \in DOMAIN wsClients : wsClients[k] # 0 /\ inst[wsClients[k]].isConnected

\* disconnectAllWebSockets has run over two instances of different debates
C31_WitnessAll ==
    /\ last.op = "disconnectAllWebSockets"
    /\ \A k \in DOMAIN wsClients : wsClients[k] = 0
    /\ inst[1].exists /\ inst[2].exists
    /\ inst[1].debateId # inst[2].debateId
    /\ TornDown(inst[1]) /\ inst[1].stale.CLOSING > 0
    /\ TornDown(inst[2]) /\ inst[2].stale.CLOSING > 0

\* disconnectWebSocket was called for a key without entry while an instance
\* of the other key is open
C31_WitnessUnregistered ==
    /\ last.op = "disconnectWebSocket"
    /\ last.c = 0
    /\ \E k \in DOMAIN wsClients : wsClients[k] # 0 /\ inst[wsClients[k]].isConnected

----------------------------------------------------------------------------
\* Properties of connectWebSocket without a credential (checked under SpecStream)

\* C32: connectWebSocket called while the credential store yields no token
\* throws the 401 error and does nothing else: no instance is constructed, no
\* socket is opened, and the registry, the store and every field of every
\* instance, its handlers included, are as before.
C32_NoCredentialNoEffect ==
    [][(last'.op = "connectWebSocket" /\ storage # "token")
          => /\ last'.ret = "throw401"
             /\ wsClients' = wsClients
             /\ storage' = storage
             /\ \A d \in ClientIds :
                   /\ inst'[d] = Quiet(inst[d])
                   /\ inst'[d].opened = 0
                   /\ inst'[d].exists = inst[d].exists]_vars

\* the call has thrown while the registered instance of the key is open and
\* holds handlers other than those passed
C32_Witness ==
    /\ last.op = "connectWebSocket"
    /\ last.ret = "throw401"
    /\ storage = "absent"
    /\ wsClients[last.key] # 0
    /\ inst[wsClients[last.key]].isConnected
    /\ inst[wsClients[last.key]].eventHandlers # last.handlers
    /\ last.handlers # NoHandlers

\* the call has thrown before any instance was made
C32_WitnessEmpty ==
    /\ last.op = "connectWebSocket"
    /\ last.ret = "throw401"
    /\ \A d \in ClientIds : ~inst[d].exists

----------------------------------------------------------------------------
\* Properties of connect() on a busy instance (checked under SpecClient)

\* the instance after a step that changed none of its fields and did nothing
\* (no event emitted, no socket constructed, no timer set)
Untouched(S) == [Quiet(S) EXCEPT !.disconnected = FALSE]

\* C33: connect() on an instance whose isConnecting or isConnected flag is
\* set returns at once: no socket is constructed, nothing is emitted, no timer
\* is set and every field of the instance is as before; the same holds for
\* the connect() a reconnect timer makes, apart from the timer having fired.
C33_ConnectWhileBusy ==
    [][\A c \in ClientIds :
         (last'.c = c /\ (inst[c].isConnecting \/ inst[c].isConnected))
            => /\ last'.op = "connect"
                  => /\ inst'[c] = Untouched(inst[c])
                     /\ inst'[c].opened = 0
                     /\ inst'[c].messageQueue = inst[c].messageQueue
               /\ last'.op = "timer"
                  => inst'[c] = [Quiet(inst[c]) EXCEPT !.reconnectTimer = "fired"]
               /\ last'.op = "strayTimer"
                  => inst'[c] = [Quiet(inst[c]) EXCEPT !.strayTimers = @ - 1]]_vars

\* connect() was called on an open instance
C33_Witness ==
    /\ last.op = "connect"
    /\ inst[1].isConnected
    /\ inst[1].ws = "OPEN"
    /\ inst[1].heartbeatTimer

\* connect() was called while the socket was still connecting
C33_WitnessConnecting ==
    /\ last.op = "connect"
    /\ inst[1].isConnecting
    /\ inst[1].ws = "CONNECTING"
    /\ inst[1].reconnectAttempts > 0

\* a reconnect timer fired on an instance that was already connecting again
C33_WitnessTimer ==
    /\ last.op \in {"timer", "strayTimer"}
    /\ inst[1].opened = 0
    /\ inst[1].isConnecting

----------------------------------------------------------------------------
\* Properties of the reconnect budget (checked under SpecClient)

\* C34, first part: the counter stays within 0..maxAttempts.
C34_CounterInRange ==
    \A c \in ClientIds :
        inst[c].reconnectAttempts >= 0
        /\ inst[c].reconnectAttempts <= inst[c].config.maxAttempts

\* C34: the counter stays within 0..maxAttempts, and the connect() calls that
\* reconnect timers made since the counter was last reset (by handleOpen or
\* reconnect()) are at most maxAttempts.
C34_AttemptsWithinBudget ==
    \A c \in ClientIds :
        /\ inst[c].reconnectAttempts >= 0
        /\ inst[c].reconnectAttempts <= inst[c].config.maxAttempts
        /\ inst[c].autoConnects <= inst[c].config.maxAttempts

----------------------------------------------------------------------------
\* Properties of the outbound messages as a whole (checked under SpecQueue)

Occurrences(messages, id) == Cardinality({i \in DOMAIN messages : messages[i].id = id})

\* C35: every message passed to send() so far is either among the messages
\* handed to WebSocket.send, once, or in messageQueue, once, and not both;
\* nothing else is in either.
C35_NoLossNoDuplicate ==
    \A c \in ClientIds :
        /\ \A id \in 1..inst[c].nsent :
              Occurrences(inst[c].wire, id) + Occurrences(inst[c].messageQueue, id) = 1
        /\ Len(inst[c].wire) + Len(inst[c].messageQueue) = inst[c].nsent

\* a drain has stopped at a transmission failure: one message went out, the
\* one that failed is queued again
C35_Witness ==
    /\ last.op \in {"open", "staleOpen"}
    /\ inst[1].nsent = 2
    /\ Len(inst[1].wire) = 1
    /\ Len(inst[1].messageQueue) = 1
    /\ ~inst[1].messageQueue[1].ok

\* a message sent on an open instance failed on the socket and was queued,
\* and the instance has since been disconnected and reconnected
C35_WitnessReconnected ==
    /\ last.op = "reconnect"
    /\ inst[1].nsent = 2
    /\ Len(inst[1].messageQueue) = 2
    /\ inst[1].messageQueue[1].id = 2
    /\ inst[1].messageQueue[1].ok

\* C36: a step that is neither a send() call nor the open event of a socket
\* of the instance (connect(), disconnect(), reconnect(), close and error
\* events, inbound messages, heartbeat ticks, reconnect timers) leaves
\* messageQueue as it was, contents and order.
C36_QueueFrame ==
    [][\A c \in ClientIds :
         last'.op \notin {"send", "open", "staleOpen"}
            => inst'[c].messageQueue = inst[c].messageQueue]_vars

\* disconnect() was called on an instance with a socket and two queued
\* messages, which are still queued
C36_Witness ==
    /\ last.op = "disconnect"
    /\ inst[1].stale.CLOSING > 0
    /\ Len(inst[1].messageQueue) = 2
    /\ inst[1].messageQueue[1].id = 1

\* a closure rescheduled a reconnect while a message that failed on the
\* socket is queued
C36_WitnessClose ==
    /\ last.op \in {"close", "staleClose"}
    /\ inst[1].scheduled # <<>>
    /\ inst[1].messageQueue # <<>>
    /\ inst[1].wire # <<>>

----------------------------------------------------------------------------
\* Liveness of automatic reconnection (checked under SpecRecovery)

\* handleClose has just run on an instance that reconnects automatically
UnintendedClosure ==
    /\ last.op \in {"close", "staleClose"}
    /\ last.c = 1
    /\ inst[1].shouldReconnect
    /\ inst[1].config.enabled

Recovered == inst[1].isConnected \/ Emitted(inst[1], "onReconnectFailed")

\* C37: when every connecting socket delivers its open or close event and
\* every reconnect timer fires, and the owner makes no call, a closure handled
\* with shouldReconnect and config.enabled set is eventually followed by the
\* instance being connected again or by onReconnectFailed being emitted.
C37_ClosureLeadsToOutcome == UnintendedClosure ~> Recovered

\* a closure has been handled and a retry is pending: not connected, nothing
\* notified yet
C37_Witness ==
    /\ UnintendedClosure
    /\ ~Recovered
    /\ inst[1].reconnectTimer = "pending"
    /\ inst[1].reconnectAttempts = 1

\* the retries after a closure have ended in onReconnectFailed
C37_WitnessFailed ==
    /\ Emitted(inst[1], "onReconnectFailed")
    /\ inst[1].reconnectAttempts = 5
    /\ inst[1].autoConnects = 5

\* the instance is connected again by the socket a reconnect timer opened
C37_WitnessReopened ==
    /\ last.op = "open"
    /\ inst[1].reconnectTimer = "fired"
    /\ inst[1].isConnected

----------------------------------------------------------------------------
\* Termination of fetchWithRetry (checked under SpecFetchLive)

Settled == fpc \in {"returned", "thrown"}

\* the error thrown is the one the attempt that has just settled produced
ThrowsLastFailure ==
    /\ Len(statuses') = calls'
    /\ \/ \E response \in Responses :
            /\ ~ResponseOk(response)
            /\ statuses' = Append(statuses, response.status)
            /\ ferror' = ErrorOfResponse(response)
       \/ \E error \in TransportErrors :
            /\ statuses' = Append(statuses, 0)
            /\ ferror' = error

\* C38: a fetchWithRetry call makes at least one and at most maxAttempts
\* fetch() calls; when every fetch() settles and every delay elapses it
\* returns or throws; and what it throws is the error of its last attempt.
C38_BoundedAndTerminates ==
    /\ [](fpc # "idle" => (calls >= 1 /\ calls <= policy.maxAttempts))
    /\ [][(fpc # "thrown" /\ fpc' = "thrown") => ThrowsLastFailure]_vars
    /\ (fpc # "idle") ~> Settled

\* the call has used all three attempts and thrown the error of the third,
\* which differs from those of the first two
C38_Witness ==
    /\ fpc = "thrown"
    /\ policy.maxAttempts = 3
    /\ calls = 3
    /\ statuses = <<503, 0, 500>>
    /\ ferror.status = 500

\* the call is between two attempts
C38_WitnessSleeping ==
    /\ fpc = "sleeping"
    /\ calls = 2
    /\ policy.maxAttempts = 3

----------------------------------------------------------------------------
\* Failures from responses whose body cannot be read (checked under SpecFetch)

\* what fetchWithRetry makes of a non-success response with that status whose
\* body cannot be read or parsed
GenericFailure(status) == APIError(<<"HTTP", ToString(status)>>, status, "null")

\* an unreadable body yields the generic failure, and whether it is retried
\* is a matter of the status alone
C39_UnreadableIsGeneric ==
    \A response \in Responses :
        (~ResponseOk(response) /\ ~response.readable)
            => /\ ErrorOfResponse(response) = GenericFailure(response.status)
               /\ ValidPolicy
                    => (isRetryableError(ErrorOfResponse(response))
                          <=> response.status \in policy.retryableStatuses)

====
